---------------------------- MODULE Spec2Model ----------------------------
(***************************************************************************)
(* Code-Vault-AI: the structural chunk extractor (code_parser.py), the     *)
(* repository walk (process_code.py), the embedding stage                  *)
(* (generate_embeddings.py) and the similarity ranker (query_code.py).     *)
(*                                                                         *)
(* Source text is modelled as a sequence of lexical tokens.  Whitespace    *)
(* other than the newline is implicit between tokens; the newline is the   *)
(* token NL.  The token "const" stands for the alternation const|let|var   *)
(* and the token "extendsRC" for the words "extends React.Component".      *)
(* Offsets are 1-based token positions; an end offset is exclusive, as the *)
(* slice bounds of the source are.                                         *)
(*                                                                         *)
(* The comment extractor works on characters: there a text is a sequence   *)
(* of one-character strings, the newline being "\n".                       *)
(***************************************************************************)
EXTENDS Integers, Sequences, FiniteSets, TLC

\* ------------------------------------------------------------------ bounds

\* Pieces concatenated into one source text of the extractor's inputs.
MaxPieces == 3
\* Files of one repository walk.
MaxFiles == 2
\* Rows of the metadata table handed to the embedding stage.
MaxChunks == 3
\* Lines above the declaration's line in a text handed to the comment extractor.
MaxCommentLines == 3

\* --------------------------------------------------------------- constants

\* code_parser.py: "if len(code.split('\n')) < 15".
SMALL_FILE_LINES == 15
\* config.py: EMBEDDING_DIMENSIONS.
EMBEDDING_DIMENSIONS == 384
\* query_code.py: search_code(query, embeddings_df, top_n=5).
DEFAULT_TOP_N == 5
\* Capture groups of the two combined alternations (len(match.groups())).
JsGroupCount == 9
JsxGroupCount == 5

\* Python's None, and an unbound local variable.
None == "<None>"
Unbound == -1

NL == "NL"

\* ------------------------------------------------------------------ lexing

\* [a-zA-Z_$][a-zA-Z0-9_$]* : the keywords are identifiers to the patterns.
IsIdent(t) == t \in {"f", "A", "function", "const", "class"}

\* [A-Z][a-zA-Z0-9_]*
IsCapIdent(t) == t \in {"A"}

At(code, i, t) == i >= 1 /\ i <= Len(code) /\ code[i] = t

IdentAt(code, i) == i >= 1 /\ i <= Len(code) /\ IsIdent(code[i])

CapIdentAt(code, i) == i >= 1 /\ i <= Len(code) /\ IsCapIdent(code[i])

\* \s* from offset i: the first offset at or after i that holds no whitespace.
RECURSIVE SkipWs(_, _)
SkipWs(code, i) ==
    IF i <= Len(code) /\ code[i] = NL THEN SkipWs(code, i + 1) ELSE i

\* [^)]*\) from offset i: the offset after the first ")" at or after i, 0 if none.
RECURSIVE FindClose(_, _)
FindClose(code, i) ==
    IF i > Len(code) THEN 0
    ELSE IF code[i] = ")" THEN i + 1
    ELSE FindClose(code, i + 1)

\* \s*\([^)]*\)\s*\{ from offset i: the offset after the "{", 0 if no match.
HeadTail(code, i) ==
    LET a == SkipWs(code, i) IN
    IF ~At(code, a, "(") THEN 0
    ELSE LET b == FindClose(code, a + 1) IN
         IF b = 0 THEN 0
         ELSE LET c == SkipWs(code, b) IN
              IF At(code, c, "{") THEN c + 1 ELSE 0

\* \s*=\s*(\([^)]*\)|IDENT)\s*=>\s*\{ from offset i.
ArrowTail(code, i) ==
    LET e == SkipWs(code, i) IN
    IF ~At(code, e, "=") THEN 0
    ELSE LET p == SkipWs(code, e + 1)
             q == IF At(code, p, "(") THEN FindClose(code, p + 1)
                  ELSE IF IdentAt(code, p) THEN p + 1
                  ELSE 0
         IN  IF q = 0 THEN 0
             ELSE LET r == SkipWs(code, q) IN
                  IF ~At(code, r, "=>") THEN 0
                  ELSE LET s == SkipWs(code, r + 1) IN
                       IF At(code, s, "{") THEN s + 1 ELSE 0

NoMatch == [end |-> 0, alt |-> 0, ident |-> None]

\* One alternative tried at offset i: where the match ends (0: no match),
\* which alternative it is, and the identifier its head declares.
\* function\s+IDENT\s*\([^)]*\)\s*\{
JsFunctionDecl(code, i) ==
    IF At(code, i, "function") /\ IdentAt(code, SkipWs(code, i + 1))
    THEN LET n == SkipWs(code, i + 1) IN
         [end |-> HeadTail(code, n + 1), alt |-> 1, ident |-> code[n]]
    ELSE NoMatch

\* (const|let|var)\s+IDENT\s*=\s*(\([^)]*\)|IDENT)\s*=>\s*\{
JsArrow(code, i) ==
    IF At(code, i, "const") /\ IdentAt(code, SkipWs(code, i + 1))
    THEN LET n == SkipWs(code, i + 1) IN
         [end |-> ArrowTail(code, n + 1), alt |-> 2, ident |-> code[n]]
    ELSE NoMatch

\* IDENT\s*\([^)]*\)\s*\{
JsMethod(code, i) ==
    IF IdentAt(code, i)
    THEN [end |-> HeadTail(code, i + 1), alt |-> 3, ident |-> code[i]]
    ELSE NoMatch

\* IDENT\s*:\s*function\s*\([^)]*\)\s*\{
JsShorthand(code, i) ==
    IF IdentAt(code, i) /\ At(code, SkipWs(code, i + 1), ":")
       /\ At(code, SkipWs(code, SkipWs(code, i + 1) + 1), "function")
    THEN LET f == SkipWs(code, SkipWs(code, i + 1) + 1) IN
         [end |-> HeadTail(code, f + 1), alt |-> 4, ident |-> code[i]]
    ELSE NoMatch

\* function\s+CAPIDENT\s*\([^)]*\)\s*\{
JsxFunctionDecl(code, i) ==
    IF At(code, i, "function") /\ CapIdentAt(code, SkipWs(code, i + 1))
    THEN LET n == SkipWs(code, i + 1) IN
         [end |-> HeadTail(code, n + 1), alt |-> 1, ident |-> code[n]]
    ELSE NoMatch

\* (const|let|var)\s+CAPIDENT\s*=\s*(\([^)]*\)|IDENT)\s*=>\s*\{
JsxArrow(code, i) ==
    IF At(code, i, "const") /\ CapIdentAt(code, SkipWs(code, i + 1))
    THEN LET n == SkipWs(code, i + 1) IN
         [end |-> ArrowTail(code, n + 1), alt |-> 2, ident |-> code[n]]
    ELSE NoMatch

\* class\s+CAPIDENT\s+extends\s+React\.Component
JsxClass(code, i) ==
    IF At(code, i, "class") /\ CapIdentAt(code, SkipWs(code, i + 1))
       /\ At(code, SkipWs(code, SkipWs(code, i + 1) + 1), "extendsRC")
    THEN LET n == SkipWs(code, i + 1) IN
         [end |-> SkipWs(code, n + 1) + 1, alt |-> 3, ident |-> code[n]]
    ELSE NoMatch

\* The combined alternation at offset i: the first alternative that matches.
JsMatchAt(code, i) ==
    IF JsFunctionDecl(code, i).end # 0 THEN JsFunctionDecl(code, i)
    ELSE IF JsArrow(code, i).end # 0 THEN JsArrow(code, i)
    ELSE IF JsMethod(code, i).end # 0 THEN JsMethod(code, i)
    ELSE IF JsShorthand(code, i).end # 0 THEN JsShorthand(code, i)
    ELSE NoMatch

JsxMatchAt(code, i) ==
    IF JsxFunctionDecl(code, i).end # 0 THEN JsxFunctionDecl(code, i)
    ELSE IF JsxArrow(code, i).end # 0 THEN JsxArrow(code, i)
    ELSE IF JsxClass(code, i).end # 0 THEN JsxClass(code, i)
    ELSE NoMatch

\* The capture groups of a match of the combined function alternation: the
\* groups are numbered across the whole alternation, so a group of an
\* alternative that did not match is None.  "<span>" is a group holding
\* more than one token.
JsGroups(code, i, m) ==
    [g \in 1..JsGroupCount |->
        CASE m.alt = 1 /\ g = 1 -> "<span>"
          [] m.alt = 1 /\ g = 2 -> m.ident
          [] m.alt = 2 /\ g = 3 -> code[i]
          [] m.alt = 2 /\ g = 4 -> m.ident
          [] m.alt = 2 /\ g = 5 -> "<span>"
          [] m.alt = 3 /\ g = 6 -> "<span>"
          [] m.alt = 3 /\ g = 7 -> m.ident
          [] m.alt = 4 /\ g = 8 -> "<span>"
          [] m.alt = 4 /\ g = 9 -> m.ident
          [] OTHER -> None]

JsxGroups(code, i, m) ==
    [g \in 1..JsxGroupCount |->
        CASE m.alt = 1 /\ g = 1 -> m.ident
          [] m.alt = 2 /\ g = 2 -> code[i]
          [] m.alt = 2 /\ g = 3 -> m.ident
          [] m.alt = 2 /\ g = 4 -> "<span>"
          [] m.alt = 3 /\ g = 5 -> m.ident
          [] OTHER -> None]

\* re.finditer: the matches from left to right, each search resuming where
\* the match before it ended.
RECURSIVE JsFindIter(_, _)
JsFindIter(code, pos) ==
    IF pos > Len(code) THEN << >>
    ELSE LET m == JsMatchAt(code, pos) IN
         IF m.end = 0 THEN JsFindIter(code, pos + 1)
         ELSE << [start |-> pos, end |-> m.end, alt |-> m.alt, ident |-> m.ident,
                  groups |-> JsGroups(code, pos, m)] >>
              \o JsFindIter(code, m.end)

RECURSIVE JsxFindIter(_, _)
JsxFindIter(code, pos) ==
    IF pos > Len(code) THEN << >>
    ELSE LET m == JsxMatchAt(code, pos) IN
         IF m.end = 0 THEN JsxFindIter(code, pos + 1)
         ELSE << [start |-> pos, end |-> m.end, alt |-> m.alt, ident |-> m.ident,
                  groups |-> JsxGroups(code, pos, m)] >>
              \o JsxFindIter(code, m.end)


\* ------------------------------------------------------- code_parser.py

\* 'kw' in match.group(0)
Has(code, m, kw) == \E j \in m.start..(m.end - 1) : code[j] = kw

\* code[:upto].count('\n'), upto an exclusive offset.
CountNL(code, upto) == Cardinality({j \in 1..(upto - 1) : j <= Len(code) /\ code[j] = NL})

\* str.strip() of the slice code[from:to].
RECURSIVE StripSlice(_, _, _)
StripSlice(code, from, to) ==
    IF from >= to THEN << >>
    ELSE IF code[from] = NL THEN StripSlice(code, from + 1, to)
    ELSE IF code[to - 1] = NL THEN StripSlice(code, from, to - 1)
    ELSE SubSeq(code, from, to - 1)

\* BraceLoop stopping at the first closing brace, whatever the depth.
RECURSIVE BraceLoop_FirstClose(_, _, _)
BraceLoop_FirstClose(code, idx, count) ==
    IF idx > Len(code) THEN 0
    ELSE IF code[idx] = "}" THEN idx + 1
    ELSE BraceLoop_FirstClose(code, idx + 1, count)

\* The closing-brace loop of both extractors, from offset idx with the depth
\* count so far: the offset after the "}" that takes the count to 0, or 0
\* when the text ends first.
RECURSIVE BraceLoop(_, _, _)
BraceLoop(code, idx, count) ==
    IF idx > Len(code) THEN 0
    ELSE IF code[idx] = "{" THEN BraceLoop(code, idx + 1, count + 1)
    ELSE IF code[idx] = "}"
         THEN IF count - 1 = 0 THEN idx + 1
              ELSE BraceLoop(code, idx + 1, count - 1)
    ELSE BraceLoop(code, idx + 1, count)

\* The opening-brace loop of extract_jsx_components: the offset after the
\* first "{" at or after idx, 0 when there is none.
RECURSIVE OpenLoop(_, _)
OpenLoop(code, idx) ==
    IF idx > Len(code) THEN 0
    ELSE IF code[idx] = "{" THEN idx + 1
    ELSE OpenLoop(code, idx + 1)

Basename(path) == << path[2], path[3] >>

Suffix(path) == path[3]

\* str.lower() on the suffixes of the model.
Lower(s) == IF s = ".JSX" THEN ".jsx" ELSE s

\* f"{os.path.basename(file_path)}_{i}"; the whole-file chunk's id is the bare
\* base name, which is no index.
NoIndex == -1
ChunkId(path, i) == [base |-> Basename(path), idx |-> i]

\* The name extract_js_functions gives a match.
JsName(code, m) ==
    IF Has(code, m, "function")
    THEN IF JsGroupCount > 1 THEN m.groups[2] ELSE "anonymous_function"
    ELSE IF Has(code, m, "const") THEN m.groups[2]
    ELSE IF JsGroupCount > 1 THEN m.groups[2] ELSE "anonymous_method"

\* The name extract_jsx_components gives the i-th match.
JsxName(code, m, i) ==
    IF Has(code, m, "function") THEN m.groups[1]
    ELSE IF Has(code, m, "const") THEN m.groups[2]
    ELSE IF Has(code, m, "class") THEN m.groups[1]
    ELSE << "Component_", i >>

MakeChunk(code, path, kind, name, i, start_idx, end_idx) ==
    [chunk_id   |-> ChunkId(path, i),
     file_path  |-> path,
     chunk_type |-> kind,
     name       |-> name,
     code       |-> StripSlice(code, start_idx, end_idx),
     start_line |-> CountNL(code, start_idx) + 1,
     end_line   |-> CountNL(code, end_idx) + 1]

\* extract_js_functions, the loop over matches k..: the depth count starts
\* at 0 at the match start.
RECURSIVE JsLoop(_, _, _, _)
JsLoop(code, path, matches, k) ==
    IF k > Len(matches) THEN << >>
    ELSE LET m == matches[k]
             found == BraceLoop(code, m.start, 0)
             end_idx == IF found = 0 THEN m.start ELSE found
         IN  IF end_idx <= m.start
             THEN JsLoop(code, path, matches, k + 1)
             ELSE << MakeChunk(code, path, "function", JsName(code, m), k - 1,
                               m.start, end_idx) >>
                  \o JsLoop(code, path, matches, k + 1)

extract_js_functions(code, path) == JsLoop(code, path, JsFindIter(code, 1), 1)

\* extract_jsx_components, the loop over matches k..: start_search_idx is a
\* local of the function, assigned only when an opening brace is found, so a
\* later iteration reads the value an earlier one left, and reading it before
\* any assignment raises UnboundLocalError.
RECURSIVE JsxLoop(_, _, _, _, _)
JsxLoop(code, path, matches, k, sidx) ==
    IF k > Len(matches) THEN [raised |-> FALSE, chunks |-> << >>]
    ELSE LET m == matches[k]
             open == OpenLoop(code, m.start)
             brace_count == IF open = 0 THEN 0 ELSE 1
             start_search_idx == IF open = 0 THEN sidx ELSE open
         IN  IF start_search_idx = Unbound
             THEN [raised |-> TRUE, chunks |-> << >>]
             ELSE LET found == BraceLoop(code, start_search_idx, brace_count)
                      end_idx == IF found = 0 THEN m.start ELSE found
                      rest == JsxLoop(code, path, matches, k + 1, start_search_idx)
                  IN  IF end_idx <= m.start \/ rest.raised THEN rest
                      ELSE [raised |-> FALSE,
                            chunks |-> << MakeChunk(code, path, "component",
                                                    JsxName(code, m, k - 1), k - 1,
                                                    m.start, end_idx) >>
                                       \o rest.chunks]

extract_jsx_components(code, path) ==
    JsxLoop(code, path, JsxFindIter(code, 1), 1, Unbound)

\* chunk['repo_name'] = repo_name
Stamp(c, repo_name) ==
    [k \in DOMAIN c \cup {"repo_name"} |-> IF k = "repo_name" THEN repo_name ELSE c[k]]

\* FileChunk with the last line's number taken for the newline count.
FileChunk_EndLineIsNewlineCount(code, path, repo_name) ==
    [chunk_id   |-> ChunkId(path, NoIndex),
     file_path  |-> path,
     chunk_type |-> "file",
     name       |-> Basename(path),
     code       |-> code,
     start_line |-> 1,
     end_line   |-> CountNL(code, Len(code) + 1),
     repo_name  |-> repo_name]

\* The whole-file chunk of process_file (both places that build it).
FileChunk(code, path, repo_name) ==
    [chunk_id   |-> ChunkId(path, NoIndex),
     file_path  |-> path,
     chunk_type |-> "file",
     name       |-> Basename(path),
     code       |-> code,
     start_line |-> 1,
     end_line   |-> CountNL(code, Len(code) + 1) + 1,
     repo_name  |-> repo_name]

\* len(code.split('\n'))
LineCount(code) == CountNL(code, Len(code) + 1) + 1

\* Steps "Extract functions and components" of process_file.
Extract(code, path) ==
    IF Lower(Suffix(path)) = ".js"
    THEN [raised |-> FALSE, chunks |-> extract_js_functions(code, path)]
    ELSE IF Lower(Suffix(path)) = ".jsx"
    THEN LET c == extract_jsx_components(code, path) IN
         IF c.raised THEN c
         ELSE [raised |-> FALSE, chunks |-> c.chunks \o extract_js_functions(code, path)]
    ELSE [raised |-> FALSE, chunks |-> << >>]

\* process_file: the chunks it returns, or raised when an exception leaves it.
process_file(file, repo_name) ==
    IF ~file.readable THEN [raised |-> FALSE, chunks |-> << >>]
    ELSE IF LineCount(file.code) < SMALL_FILE_LINES
    THEN [raised |-> FALSE, chunks |-> << FileChunk(file.code, file.path, repo_name) >>]
    ELSE LET x == Extract(file.code, file.path) IN
         IF x.raised THEN x
         ELSE IF x.chunks = << >>
         THEN [raised |-> FALSE, chunks |-> << FileChunk(file.code, file.path, repo_name) >>]
         ELSE [raised |-> FALSE,
               chunks |-> [j \in 1..Len(x.chunks) |-> Stamp(x.chunks[j], repo_name)]]


\* ------------------------------------------------------------ the inputs

\* config.py: REPO_NAME.
REPO_NAME == "e-commerce"

\* Declaration heads and loose tokens a source text is put together from.
Pieces ==
    { << "function", "f", "(", ")", "{" >>,
      << "function", "A", "(", ")", "{" >>,
      << "const", "A", "=", "(", ")", "=>", "{" >>,
      << "f", "(", ")", "{" >>,
      << "f", ":", "function", "(", ")", "{" >>,
      << "class", "A", "extendsRC" >>,
      << "function", "A", "(", "}", ")", "{" >>,
      << "f", "(", "{", ")", "{" >>,
      << "{" >>,
      << "}" >>,
      << NL >> }

RECURSIVE TextsUpTo(_)
TextsUpTo(n) ==
    IF n = 0 THEN { << >> }
    ELSE LET prev == TextsUpTo(n - 1) IN
         prev \cup { t \o p : t \in prev, p \in Pieces }

Newlines(n) == [j \in 1..n |-> NL]

\* Trailing blank lines: none, or enough to bring an empty text to one line
\* under, or to exactly, the small-file threshold.
Paddings == { 0, SMALL_FILE_LINES - 2, SMALL_FILE_LINES - 1 }

ParsePaths == { << "repo", "a", ".js" >>, << "repo", "a", ".jsx" >>, << "repo", "a", ".json" >> }

ParseFiles ==
    { [path |-> p, readable |-> TRUE, code |-> t \o Newlines(n)] :
        p \in ParsePaths, t \in TextsUpTo(MaxPieces), n \in Paddings }
    \cup { [path |-> p, readable |-> FALSE, code |-> << >>] : p \in ParsePaths }

\* ------------------------------------------------------------- the state

VARIABLES
    pc,               \* where the running program is
    file,             \* process_file: its argument
    result,           \* process_file: what it returned or that it raised
    tree,             \* process_repository: the files under repo_path, in walk order
    code_files,       \* process_repository: the files found
    cursor,           \* process_repository: the files processed so far
    all_chunks,       \* process_repository: all_chunks
    metadata,         \* process_chunks_for_embeddings: metadata_df
    embeddings_data,  \* process_chunks_for_embeddings: embeddings_data
    encode_log,       \* what model.encode answered, call by call, while embedding
    query_embedding,  \* search_code: the query's embedding
    top_n,            \* search_code: top_n
    results,          \* search_code: the frame it returns
    printed,          \* display_results: the lines printed, one per result
    comment_args,     \* extract_comment_above_function: code and function_start_idx
    description       \* extract_comment_above_function: what it returned

vars == << pc, file, result, tree, code_files, cursor, all_chunks, metadata,
           embeddings_data, encode_log, query_embedding, top_n, results, printed,
           comment_args, description >>

NoFile == [path |-> << "", "", "" >>, readable |-> FALSE, code |-> << >>]
NoResult == [raised |-> FALSE, chunks |-> << >>]

RepoIdle == tree = << >> /\ code_files = << >> /\ cursor = 0 /\ all_chunks = << >>
IndexIdle ==
    /\ metadata = << >> /\ embeddings_data = << >> /\ encode_log = << >>
    /\ query_embedding = << >>
    /\ top_n = 0 /\ results = << >> /\ printed = << >>
ParseIdle == file = NoFile /\ result = NoResult
NoArgs == [code |-> << >>, idx |-> 1]
CommentIdle == comment_args = NoArgs /\ description = << >>

\* ------------------------------------------------ process_file, one call

ParseInit ==
    /\ pc = "call"
    /\ file \in ParseFiles
    /\ result = NoResult
    /\ RepoIdle /\ IndexIdle /\ CommentIdle

ProcessFile ==
    /\ pc = "call"
    /\ result' = process_file(file, REPO_NAME)
    /\ pc' = "returned"
    /\ UNCHANGED << comment_args, description, file, tree, code_files, cursor, all_chunks, metadata, embeddings_data,
                    encode_log, query_embedding, top_n, results, printed >>

ParseNext == ProcessFile

SpecParse == ParseInit /\ [][ParseNext]_vars


\* --------------------------------------------- properties of process_file

Returned == pc = "returned" /\ file.readable

Chunks == result.chunks

\* The chunks the matchers built (kind function or component).
MatcherChunks == { j \in 1..Len(Chunks) : Chunks[j].chunk_type # "file" }

\* A text, or a body, whose braces nest: scanning left to right the depth
\* never goes negative and ends at 0.
RECURSIVE DepthOk(_, _, _)
DepthOk(seq, j, depth) ==
    IF depth < 0 THEN FALSE
    ELSE IF j > Len(seq) THEN depth = 0
    ELSE IF seq[j] = "{" THEN DepthOk(seq, j + 1, depth + 1)
    ELSE IF seq[j] = "}" THEN DepthOk(seq, j + 1, depth - 1)
    ELSE DepthOk(seq, j + 1, depth)

Balanced(seq) == DepthOk(seq, 1, 0)

IsSlice(body, code) ==
    \E a \in 1..(Len(code) + 1) : \E b \in (a - 1)..Len(code) : body = SubSeq(code, a, b)

\* The matches the matcher behind a chunk found in the file's text.
MatchesOf(kind) ==
    IF kind = "component" THEN JsxFindIter(file.code, 1) ELSE JsFindIter(file.code, 1)

\* C1: the chunk_id values of the chunks one process_file call returns are
\* pairwise distinct, for any input file (a .jsx file included, where the
\* component matcher and the function matcher both number their own matches).
C1_ChunkIdsDistinct ==
    Returned /\ ~result.raised =>
        \A j, k \in 1..Len(Chunks) : j # k => Chunks[j].chunk_id # Chunks[k].chunk_id

\* The matchers run on the file and emit nothing (or no matcher runs).
ZeroChunksExtracted ==
    LET x == Extract(file.code, file.path) IN ~x.raised /\ x.chunks = << >>

C3_BodiesBalanced ==
    Returned /\ ~result.raised /\ Balanced(file.code) =>
        \A j \in MatcherChunks :
            IsSlice(Chunks[j].code, file.code) /\ Balanced(Chunks[j].code)

\* The first brace of a body is an opening one.
FirstBraceOpens(body) ==
    \E j \in 1..Len(body) : body[j] = "{" /\ \A k \in 1..(j - 1) : body[k] # "}"

\* C3, amended: for a text whose braces are well-balanced, the body of every
\* chunk the function and component matchers emit is a contiguous substring
\* of the text, and it is brace-balanced whenever its first brace is an
\* opening brace (so also with an opening brace inside the matched head).
C3_BodiesBalancedWhenFirstBraceOpens ==
    Returned /\ ~result.raised /\ Balanced(file.code) =>
        \A j \in MatcherChunks :
            /\ IsSlice(Chunks[j].code, file.code)
            /\ FirstBraceOpens(Chunks[j].code) => Balanced(Chunks[j].code)

\* C3's case: a balanced text in which a head with an opening brace in its
\* parameter list matched and its chunk was emitted.
C3_Witness ==
    /\ Returned /\ ~result.raised /\ Balanced(file.code)
    /\ \E j \in MatcherChunks :
           /\ SubSeq(Chunks[j].code, 1, 5) = << "f", "(", "{", ")", "{" >>
           /\ Balanced(Chunks[j].code)
           /\ Len(Chunks[j].code) = 7

Keywords == { "function", "const", "class" }

\* C4: the name of every chunk of the function or component matcher is the
\* identifier declared in the matched head (by the alternative that matched),
\* never absent and never the declaration keyword.
C4_NameIsDeclaredIdentifier ==
    Returned /\ ~result.raised =>
        \A j \in MatcherChunks :
            LET c == Chunks[j]
                m == MatchesOf(c.chunk_type)[c.chunk_id.idx + 1]
            IN  c.name = m.ident /\ c.name # None /\ c.name \notin Keywords

\* A candidate with no matching closing brace before the end of the text.
NoClosingBrace(kind, m) ==
    IF kind = "component"
    THEN \/ OpenLoop(file.code, m.start) = 0
         \/ BraceLoop(file.code, OpenLoop(file.code, m.start), 1) = 0
    ELSE BraceLoop(file.code, m.start, 0) = 0

RanMatchers(kind) ==
    /\ Returned
    /\ LineCount(file.code) >= SMALL_FILE_LINES
    /\ \/ Suffix(file.path) = ".jsx"
       \/ Suffix(file.path) = ".js" /\ kind = "function"

\* C10: a match with no matching closing brace before the end of the text
\* (for the class-extends alternative: with no opening brace after it) yields
\* no chunk and no error, and the remaining matches are still handled.
C10_UnclosedCandidateDiscarded ==
    \A kind \in { "function", "component" } :
        RanMatchers(kind) =>
            LET ms == MatchesOf(kind) IN
            /\ ~result.raised
            /\ \A k \in 1..Len(ms) :
                   LET emitted == \E j \in MatcherChunks :
                           /\ Chunks[j].chunk_type = kind
                           /\ Chunks[j].chunk_id.idx = k - 1
                   IN  emitted <=> ~NoClosingBrace(kind, ms[k])


\* ------------------------------------------------------- process_code.py

\* config.py: CODE_EXTENSIONS.
CODE_EXTENSIONS == { ".js", ".jsx", ".json" }

\* is_code_file
is_code_file(path, extensions) == Lower(Suffix(path)) \in extensions

\* 'node_modules' in root or '.git' in root, on the directories of the model.
SkippedRoot(root) == root \in { "repo/node_modules", "repo/.git" }

\* find_code_files: the walk's files, without those under a skipped root or
\* with another extension.
find_code_files(walk, extensions) ==
    SelectSeq(walk, LAMBDA e : ~SkippedRoot(e.path[1]) /\ is_code_file(e.path, extensions))

Padded(text) == text \o Newlines(SMALL_FILE_LINES - 1)

\* The files a repository of the model is made of.
RepoEntries ==
    { [path |-> << "repo", "util", ".js" >>, readable |-> TRUE,
       code |-> Padded(<< "function", "f", "(", ")", "{", "}" >>)],
      [path |-> << "repo", "App", ".jsx" >>, readable |-> TRUE,
       code |-> Padded(<< "function", "A", "(", ")", "{", "}" >>)],
      [path |-> << "repo", "Stub", ".JSX" >>, readable |-> TRUE,
       code |-> Padded(<< "class", "A", "extendsRC" >>)],
      [path |-> << "repo", "locked", ".js" >>, readable |-> FALSE, code |-> << >>],
      [path |-> << "repo", "package", ".json" >>, readable |-> TRUE,
       code |-> << "{", NL, "}" >>],
      [path |-> << "repo", "README", ".md" >>, readable |-> TRUE, code |-> << "f" >>],
      [path |-> << "repo/node_modules", "dep", ".js" >>, readable |-> TRUE,
       code |-> Padded(<< "function", "f", "(", ")", "{", "}" >>)] }

RECURSIVE WalksUpTo(_)
WalksUpTo(n) ==
    IF n = 0 THEN { << >> }
    ELSE LET prev == WalksUpTo(n - 1) IN
         prev \cup { Append(w, e) : w \in prev, e \in RepoEntries }

NoRepeat(w) == \A j, k \in 1..Len(w) : j # k => w[j].path # w[k].path

RepoInit ==
    /\ pc = "find"
    /\ tree \in { w \in WalksUpTo(MaxFiles) : NoRepeat(w) }
    /\ code_files = << >> /\ cursor = 0 /\ all_chunks = << >>
    /\ ParseIdle /\ IndexIdle /\ CommentIdle

\* process_repository, up to the loop: find_code_files.
FindCodeFiles ==
    /\ pc = "find"
    /\ code_files' = find_code_files(tree, CODE_EXTENSIONS)
    /\ pc' = "loop"
    /\ UNCHANGED << comment_args, description, file, result, tree, cursor, all_chunks, metadata, embeddings_data,
                    encode_log, query_embedding, top_n, results, printed >>

\* One turn of "for file_path in code_files": nothing in process_repository or
\* main catches what process_file raises, so the run ends there.
ProcessNextFile ==
    /\ pc = "loop"
    /\ cursor < Len(code_files)
    /\ LET r == process_file(code_files[cursor + 1], REPO_NAME) IN
       IF r.raised
       THEN pc' = "aborted" /\ UNCHANGED << cursor, all_chunks >>
       ELSE /\ all_chunks' = all_chunks \o r.chunks
            /\ cursor' = cursor + 1
            /\ pc' = pc
    /\ UNCHANGED << comment_args, description, file, result, tree, code_files, metadata, embeddings_data,
                    encode_log, query_embedding, top_n, results, printed >>

\* The loop is over: the frame of all_chunks is returned.
ReturnFrame ==
    /\ pc = "loop"
    /\ cursor = Len(code_files)
    /\ pc' = "done"
    /\ UNCHANGED << comment_args, description, file, result, tree, code_files, cursor, all_chunks, metadata,
                    embeddings_data, encode_log, query_embedding, top_n, results, printed >>

RepoNext == FindCodeFiles \/ ProcessNextFile \/ ReturnFrame

SpecRepo == RepoInit /\ [][RepoNext]_vars

\* A file whose processing fails: unreadable, or a matcher raises on its text.
Fails(f) == ~f.readable \/ process_file(f, REPO_NAME).raised

RECURSIVE ChunksOfOthers(_, _)
ChunksOfOthers(fs, j) ==
    IF j > Len(fs) THEN << >>
    ELSE (IF Fails(fs[j]) THEN << >> ELSE process_file(fs[j], REPO_NAME).chunks)
         \o ChunksOfOthers(fs, j + 1)

\* C6: a failure while processing one file (unreadable, or a matcher failing
\* on its text) never aborts process_repository: the failing file contributes
\* zero chunks and the chunks of every other discovered file are in the result.
C6_FileFailureIsolated ==
    /\ pc # "aborted"
    /\ pc = "done" => all_chunks = ChunksOfOthers(code_files, 1)


\* ----------------------------------------------- generate_embeddings.py

\* A vector of EMBEDDING_DIMENSIONS entries: a and b, then zeros.  Entries are
\* integers standing for the floats of the source.
Vec(a, b) ==
    [i \in 1..EMBEDDING_DIMENSIONS |-> IF i = 1 THEN a ELSE IF i = 2 THEN b ELSE 0]

\* What model.encode returns when it returns: the model's vectors.
ModelVecs == { Vec(1, 0), Vec(1, 1), Vec(-1, 0) }

\* An answer of model.encode: a vector, or an exception.
Raise == << "raise" >>
EncodeAnswers == ModelVecs \cup { Raise }

\* generate_embedding with the error answered by an empty list.
generate_embedding_EmptyOnError(answer) ==
    IF answer = Raise THEN << >> ELSE answer

\* generate_embedding, given what model.encode answers for the (truncated) text.
generate_embedding(answer) ==
    IF answer = Raise THEN [i \in 1..EMBEDDING_DIMENSIONS |-> 0] ELSE answer

\* The k-th row of the metadata table (metadata.csv as process_code.py wrote it).
MetaRow(k) ==
    [chunk_id   |-> [base |-> << "util", ".js" >>, idx |-> k - 1],
     file_path  |-> << "repo", "util", ".js" >>,
     repo_name  |-> REPO_NAME,
     chunk_type |-> "function",
     name       |-> "f",
     start_line |-> k,
     end_line   |-> k]

\* chunk_data of process_chunks_for_embeddings.
ChunkData(row, embedding_vector) ==
    [chunk_id   |-> row.chunk_id,
     file_path  |-> row.file_path,
     repo_name  |-> row.repo_name,
     chunk_type |-> row.chunk_type,
     name       |-> row.name,
     start_line |-> row.start_line,
     end_line   |-> row.end_line,
     embedding  |-> embedding_vector]

\* ------------------------------------------------------- query_code.py

NaN == [nan |-> TRUE, dot |-> 0, nn |-> 0]

\* The sum of u[i] * v[i] over lo..hi, by halves.
RECURSIVE DotRange(_, _, _, _)
DotRange(u, v, lo, hi) ==
    IF lo > hi THEN 0
    ELSE IF lo = hi THEN u[lo] * v[lo]
    ELSE LET mid == (lo + hi) \div 2 IN
         DotRange(u, v, lo, mid) + DotRange(u, v, mid + 1, hi)

\* np.dot
Dot(u, v) == DotRange(u, v, 1, Len(u))

\* calculate_similarity: dot / (norm * norm), kept as the dot product and the
\* product nn of the two squared norms, the score being dot / sqrt(nn); a zero
\* norm makes the division 0.0 / 0.0, which numpy answers with nan.
calculate_similarity(q, c) ==
    LET nn == Dot(q, q) * Dot(c, c) IN
    IF nn = 0 THEN NaN ELSE [nan |-> FALSE, dot |-> Dot(q, c), nn |-> nn]

\* embeddings_df['embedding'].apply(lambda x: calculate_similarity(...)), from
\* row j on.
RECURSIVE SimilarityColumn(_, _, _)
SimilarityColumn(q, df, j) ==
    IF j > Len(df) THEN << >>
    ELSE << calculate_similarity(q, df[j].embedding) >> \o SimilarityColumn(q, df, j + 1)

\* a > b on two scores that are numbers.
Greater(a, b) ==
    IF a.dot >= 0 /\ b.dot < 0 THEN TRUE
    ELSE IF a.dot < 0 /\ b.dot >= 0 THEN FALSE
    ELSE IF a.dot >= 0 THEN a.dot * a.dot * b.nn > b.dot * b.dot * a.nn
    ELSE a.dot * a.dot * b.nn < b.dot * b.dot * a.nn

Perms(n) == { p \in [1..n -> 1..n] : \A j, k \in 1..n : j # k => p[j] # p[k] }

\* sort_values with the rows that hold nan put first.
SortOrders_NaNFirst(sim) ==
    { p \in Perms(Len(sim)) :
        \A j, k \in 1..Len(sim) : j < k =>
            /\ sim[p[k]].nan /\ ~sim[p[j]].nan => FALSE
            /\ ~sim[p[j]].nan /\ ~sim[p[k]].nan => ~Greater(sim[p[k]], sim[p[j]])
            /\ sim[p[j]].nan /\ sim[p[k]].nan => p[j] < p[k] }

\* sort_values('similarity', ascending=False): the row orders it can return.
\* The rows holding nan are taken out before the sort and put last, in their
\* own order (na_position='last'); the others are sorted with kind='quicksort',
\* which is not stable, so rows of equal score come in any order.
SortOrders(sim) ==
    { p \in Perms(Len(sim)) :
        \A j, k \in 1..Len(sim) : j < k =>
            /\ sim[p[j]].nan => sim[p[k]].nan
            /\ ~sim[p[j]].nan /\ ~sim[p[k]].nan => ~Greater(sim[p[k]], sim[p[j]])
            /\ sim[p[j]].nan /\ sim[p[k]].nan => p[j] < p[k] }

Min(a, b) == IF a < b THEN a ELSE b

\* The frame search_code returns for one order of the sort: the first top_n
\* rows, each under its index label (the row's position in embeddings_df, from
\* 0) and without the embedding column.
ResultFrame(df, sim, order, n) ==
    [k \in 1..Min(n, Len(df)) |->
        [label      |-> order[k] - 1,
         chunk_id   |-> df[order[k]].chunk_id,
         name       |-> df[order[k]].name,
         chunk_type |-> df[order[k]].chunk_type,
         similarity |-> sim[order[k]]]]

\* f"{similarity:.4f}" as a count of ten-thousandths, "nan" for nan.  The
\* magnitude is the r with r - 1/2 <= 10000 * |dot| / sqrt(nn) < r + 1/2.
TenThousand == 10000
RECURSIVE RoundSearch(_, _, _)
RoundSearch(s, lo, hi) ==
    IF lo = hi THEN lo
    ELSE LET mid == (lo + hi + 1) \div 2 IN
         IF (2 * mid - 1) * (2 * mid - 1) * s.nn <= 4 * TenThousand * TenThousand * s.dot * s.dot
         THEN RoundSearch(s, mid, hi)
         ELSE RoundSearch(s, lo, mid - 1)

Format4f(s) ==
    IF s.nan THEN << "nan" >>
    ELSE << IF s.dot < 0 THEN "-" ELSE "", RoundSearch(s, 0, TenThousand) >>

\* The header line display_results prints for the row under index label idx.
HeaderLine(idx, row) ==
    [rank |-> idx + 1, name |-> row.name, chunk_type |-> row.chunk_type,
     similarity |-> Format4f(row.similarity)]

\* --------------------------------- the index: embed, search, display

TopNs == { 1, 2, DEFAULT_TOP_N }

IndexInit ==
    /\ pc = "embed"
    /\ \E n \in 1..MaxChunks : metadata = [k \in 1..n |-> MetaRow(k)]
    /\ embeddings_data = << >> /\ encode_log = << >>
    /\ query_embedding = << >> /\ top_n = 0 /\ results = << >> /\ printed = << >>
    /\ ParseIdle /\ RepoIdle /\ CommentIdle

\* One turn of the loop of process_chunks_for_embeddings.
EmbedNextChunk ==
    /\ pc = "embed"
    /\ Len(embeddings_data) < Len(metadata)
    /\ \E answer \in EncodeAnswers :
          /\ encode_log' = Append(encode_log, IF answer = Raise THEN "raised" ELSE "returned")
          /\ embeddings_data' =
                 Append(embeddings_data,
                        ChunkData(metadata[Len(embeddings_data) + 1],
                                  generate_embedding(answer)))
    /\ UNCHANGED << comment_args, description, pc, file, result, tree, code_files, cursor, all_chunks, metadata,
                    query_embedding, top_n, results, printed >>

\* The loop is over; embeddings_data is returned, saved and, by query_code.py,
\* loaded again as embeddings_df.
IndexBuilt ==
    /\ pc = "embed"
    /\ Len(embeddings_data) = Len(metadata)
    /\ pc' = "indexed"
    /\ UNCHANGED << comment_args, description, file, result, tree, code_files, cursor, all_chunks, metadata,
                    embeddings_data, encode_log, query_embedding, top_n, results,
                    printed >>

\* search_code, the model failing on the query: it returns the empty list.
SearchNoQueryEmbedding ==
    /\ pc = "indexed"
    /\ \E n \in TopNs : top_n' = n
    /\ query_embedding' = << >>
    /\ results' = << >>
    /\ pc' = "searched_list"
    /\ UNCHANGED << comment_args, description, file, result, tree, code_files, cursor, all_chunks, metadata,
                    embeddings_data, encode_log, printed >>

\* search_code, the query embedded.
Search ==
    /\ pc = "indexed"
    /\ \E q \in ModelVecs :
          /\ query_embedding' = q
          /\ IF \E j \in 1..Len(embeddings_data) : Len(embeddings_data[j].embedding) # Len(q)
             THEN \* np.dot on two shapes raises ValueError
                  /\ pc' = "search_raised" /\ results' = << >>
                  /\ \E n \in TopNs : top_n' = n
             ELSE \E sim \in { SimilarityColumn(q, embeddings_data, 1) } :
                      /\ \E order \in SortOrders(sim), n \in TopNs :
                             /\ top_n' = n
                             /\ results' = ResultFrame(embeddings_data, sim, order, n)
                      /\ pc' = "searched"
    /\ UNCHANGED << comment_args, description, file, result, tree, code_files, cursor, all_chunks, metadata,
                    embeddings_data, encode_log, printed >>

\* display_results on the frame.
Display ==
    /\ pc = "searched"
    /\ printed' = [k \in 1..Len(results) |-> HeaderLine(results[k].label, results[k])]
    /\ pc' = "displayed"
    /\ UNCHANGED << comment_args, description, file, result, tree, code_files, cursor, all_chunks, metadata,
                    embeddings_data, encode_log, query_embedding, top_n, results >>

\* display_results on the empty list: a list has no attribute empty.
DisplayList ==
    /\ pc = "searched_list"
    /\ pc' = "display_raised"
    /\ UNCHANGED << comment_args, description, file, result, tree, code_files, cursor, all_chunks, metadata,
                    embeddings_data, encode_log, query_embedding, top_n, results,
                    printed >>

IndexNext ==
    \/ EmbedNextChunk
    \/ IndexBuilt
    \/ SearchNoQueryEmbedding
    \/ Search
    \/ Display
    \/ DisplayList

SpecIndex == IndexInit /\ [][IndexNext]_vars


\* ------------------------------------------- properties of the index

\* The similarity column search_code computed for the query it was given.
SimColumn == SimilarityColumn(query_embedding, embeddings_data, 1)

Tied(a, b) == ~a.nan /\ ~b.nan /\ ~Greater(a, b) /\ ~Greater(b, a)

\* The order of a stable descending sort: rows of equal score in corpus order.
StableOrder(sim) ==
    CHOOSE p \in SortOrders(sim) :
        \A j, k \in 1..Len(sim) : j < k /\ Tied(sim[p[j]], sim[p[k]]) => p[j] < p[k]

\* C5: search_code returns at most top_n records, the first top_n of the corpus
\* sorted by score in descending order with a stable sort: of two records with
\* identical scores the one earlier in the corpus comes earlier in the result.
C5_StableTopN ==
    pc = "searched" =>
        /\ Len(results) <= top_n
        /\ \E sim \in { SimColumn } :
               results = ResultFrame(embeddings_data, sim, StableOrder(sim), top_n)

\* C7: when the model raises for a chunk, that chunk's stored embedding is a
\* zero vector of exactly EMBEDDING_DIMENSIONS entries; the output holds one row
\* per input chunk, in input order, every embedding fully populated.
C7_EmbeddingFailureGivesZeroVector ==
    /\ Len(embeddings_data) = Len(encode_log)
    /\ Len(embeddings_data) <= Len(metadata)
    /\ pc # "embed" => Len(embeddings_data) = Len(metadata)
    /\ \A k \in 1..Len(embeddings_data) :
           /\ embeddings_data[k].chunk_id = metadata[k].chunk_id
           /\ DOMAIN embeddings_data[k].embedding = 1..EMBEDDING_DIMENSIONS
           /\ encode_log[k] = "raised" =>
                  \A i \in 1..EMBEDDING_DIMENSIONS : embeddings_data[k].embedding[i] = 0

\* C7's case: the index is built, the model raised for one chunk and answered
\* for a later one.
C7_Witness ==
    /\ pc = "indexed"
    /\ \E j, k \in 1..Len(embeddings_data) :
           /\ j < k
           /\ encode_log[j] = "raised" /\ encode_log[k] = "returned"
           /\ embeddings_data[j].embedding[1] = 0
           /\ embeddings_data[k].embedding[1] # 0

ZeroMagnitude(v) == Dot(v, v) = 0

\* C8: a stored record whose embedding has zero magnitude gets an undefined
\* score; ranking does not crash, and the record comes after every record
\* with a defined score, at a position the corpus alone fixes: the number of
\* defined scores plus the number of undefined ones before it in the corpus.
C8_ZeroVectorRanksLast ==
    /\ pc # "search_raised"
    /\ pc = "searched" =>
           \E sim \in { SimColumn } :
               \A j \in 1..Len(embeddings_data) :
                   ZeroMagnitude(embeddings_data[j].embedding) =>
                       LET defined == { i \in 1..Len(sim) : ~sim[i].nan }
                           before  == { i \in 1..(j - 1) : sim[i].nan }
                           pos     == Cardinality(defined) + Cardinality(before) + 1
                       IN  /\ sim[j].nan
                           /\ pos <= top_n =>
                                  /\ Len(results) >= pos
                                  /\ results[pos].label = j - 1
                                  /\ results[pos].similarity.nan
                           /\ pos > top_n =>
                                  \A k \in 1..Len(results) : results[k].label # j - 1

\* C8's case: the model raised for a chunk, a chunk after it in the corpus has
\* a defined score, and both are in the ranked result.
C8_Witness ==
    /\ pc = "searched"
    /\ \E j, k \in 1..Len(embeddings_data) :
           /\ j < k
           /\ encode_log[j] = "raised"
           /\ ~ZeroMagnitude(embeddings_data[k].embedding)
           /\ \E a, b \in 1..Len(results) :
                  a < b /\ results[a].label = k - 1 /\ results[b].label = j - 1

\* C9: the k-th result display_results prints, in descending score order, is
\* labelled k (1 through N), whatever the record's row in the stored index.
C9_PrintedRankIsPosition ==
    pc = "displayed" => \A k \in 1..Len(printed) : printed[k].rank = k


\* ------------------------------------------ extract_comment_above_function

\* The characters str.strip() removes, among those of the model's texts.
Whitespace == { " ", "\t" }

RECURSIVE lstrip(_)
lstrip(s) == IF s # << >> /\ Head(s) \in Whitespace THEN lstrip(Tail(s)) ELSE s

RECURSIVE rstrip(_)
rstrip(s) ==
    IF s # << >> /\ s[Len(s)] \in Whitespace THEN rstrip(SubSeq(s, 1, Len(s) - 1)) ELSE s

\* line.strip()
strip(s) == rstrip(lstrip(s))

\* line.startswith(prefix)
startswith(s, prefix) == Len(s) >= Len(prefix) /\ SubSeq(s, 1, Len(prefix)) = prefix

\* line[n:]
DropFirst(s, n) == SubSeq(s, n + 1, Len(s))

\* s.split('\n'): the pieces between the newlines, one more than there are newlines.
RECURSIVE split(_)
split(s) ==
    IF \A k \in 1..Len(s) : s[k] # "\n" THEN << s >>
    ELSE LET k == CHOOSE j \in 1..Len(s) : s[j] = "\n" /\ \A h \in 1..(j - 1) : s[h] # "\n"
         IN << SubSeq(s, 1, k - 1) >> \o split(DropFirst(s, k))

\* ' '.join(comment_lines)
RECURSIVE join(_)
join(comment_lines) ==
    IF comment_lines = << >> THEN << >>
    ELSE IF Len(comment_lines) = 1 THEN comment_lines[1]
    ELSE comment_lines[1] \o << " " >> \o join(Tail(comment_lines))

\* The loop over the reversed lines: line k of lines is the next one visited,
\* comment_lines what insert(0, ...) has collected so far.
RECURSIVE CommentLoop(_, _, _)
CommentLoop(lines, k, comment_lines) ==
    IF k = 0 THEN comment_lines
    ELSE LET line == strip(lines[k]) IN
         IF line = << >> THEN CommentLoop(lines, k - 1, comment_lines)
         ELSE IF startswith(line, << "/", "/" >>)
              THEN CommentLoop(lines, k - 1, << strip(DropFirst(line, 2)) >> \o comment_lines)
         ELSE IF startswith(line, << "*" >>) /\ ~startswith(line, << "*", "/" >>)
              THEN CommentLoop(lines, k - 1, << strip(DropFirst(line, 1)) >> \o comment_lines)
         ELSE IF startswith(line, << "/", "*" >>)
              THEN << strip(DropFirst(line, 2)) >> \o comment_lines
         ELSE comment_lines

\* code[:function_start_idx].split('\n'): its last piece is what stands before
\* the offset on the offset's own line.
LinesBefore(code, function_start_idx) == split(SubSeq(code, 1, function_start_idx - 1))

extract_comment_above_function(code, function_start_idx) ==
    LET lines == LinesBefore(code, function_start_idx)
    IN join(CommentLoop(lines, Len(lines), << >>))

\* Lines that can stand above the declaration: empty, blank, "// a", " * b",
\* "/** c", "*/", and a line of code.
CommentLines ==
    { << >>,
      << " ", " " >>,
      << "/", "/", " ", "a" >>,
      << " ", "*", " ", "b" >>,
      << "/", "*", "*", " ", "c" >>,
      << "*", "/" >>,
      << "x", ";" >> }

\* What can stand before the declaration on its own line: nothing, indentation,
\* code ("x = "), a line-comment marker, the end of a block comment.
DeclarationPrefixes ==
    { << >>,
      << " ", " " >>,
      << "x", " ", "=", " " >>,
      << "/", "/", " " >>,
      << "*", "/", " " >> }

\* The matched declaration, where function_start_idx points (match.start()).
Declaration == << "f", "(", ")", " ", "{", "}" >>

RECURSIVE LinesUpTo(_)
LinesUpTo(n) ==
    IF n = 0 THEN { << >> }
    ELSE LET prev == LinesUpTo(n - 1) IN
         prev \cup { t \o l \o << "\n" >> : t \in prev, l \in CommentLines }

CommentInputs ==
    { [code |-> above \o before \o Declaration, idx |-> Len(above) + Len(before) + 1] :
        above \in LinesUpTo(MaxCommentLines), before \in DeclarationPrefixes }

CommentInit ==
    /\ pc = "comment_call"
    /\ comment_args \in CommentInputs
    /\ description = << >>
    /\ ParseIdle /\ RepoIdle /\ IndexIdle

ExtractComment ==
    /\ pc = "comment_call"
    /\ description' = extract_comment_above_function(comment_args.code, comment_args.idx)
    /\ pc' = "comment_returned"
    /\ UNCHANGED << comment_args, file, result, tree, code_files, cursor, all_chunks, metadata,
                    embeddings_data, encode_log, query_embedding, top_n, results, printed >>

CommentNext == ExtractComment

SpecComment == CommentInit /\ [][CommentNext]_vars

\* ------------------------------- properties of extract_comment_above_function

\* The walk as stated: from line k upward, blank lines skipped, a "//" line or a
\* "*" line that is not "*/" contributing its remainder, a "/*" line
\* contributing its remainder and ending the walk, any other line ending it.
RECURSIVE StatedWalk(_, _, _)
StatedWalk(lines, k, fragments) ==
    IF k = 0 THEN fragments
    ELSE LET line == strip(lines[k]) IN
         IF line = << >> THEN StatedWalk(lines, k - 1, fragments)
         ELSE IF startswith(line, << "/", "/" >>)
              THEN StatedWalk(lines, k - 1, << strip(DropFirst(line, 2)) >> \o fragments)
         ELSE IF startswith(line, << "*" >>) /\ ~startswith(line, << "*", "/" >>)
              THEN StatedWalk(lines, k - 1, << strip(DropFirst(line, 1)) >> \o fragments)
         ELSE IF startswith(line, << "/", "*" >>)
              THEN << strip(DropFirst(line, 2)) >> \o fragments
         ELSE fragments

\* The description as stated: the walk starts at the line immediately above the
\* line holding the offset, whatever stands before the offset on its own line.
StatedDescription(code, idx) ==
    LET lines == LinesBefore(code, idx)
    IN join(StatedWalk(lines, Len(lines) - 1, << >>))

\* C11: extract_comment_above_function(code, idx) walks backward from the line
\* immediately above the line holding idx, skipping blank lines, collecting the
\* remainder of "//" and "*" (not "*/") lines, collecting the remainder of a
\* "/*" line and stopping there, stopping at any other line; it returns the
\* fragments space-joined in top-to-bottom order, whatever text precedes the
\* declaration on its own line.
C11_DescriptionFromLineAbove ==
    pc = "comment_returned" =>
        description = StatedDescription(comment_args.code, comment_args.idx)


\* ------------------------------------------------------ the whole program

\* The programs of the repository, each run from its own start.
Init == ParseInit \/ RepoInit \/ IndexInit \/ CommentInit

Next == ParseNext \/ RepoNext \/ IndexNext \/ CommentNext

Spec == Init /\ [][Next]_vars

=============================================================================
